---------------------------- MODULE Spec2Model ----------------------------
(***************************************************************************)
(* Model of tokenCounter's main.py: main() resolves and downloads a        *)
(* repository archive, extracts it into a temporary directory, walks the   *)
(* extracted tree once per metric (lines of code, then tokens), assembles  *)
(* the per-language report and renders it below a synthetic Total row.     *)
(*                                                                         *)
(* A file is a record of what the program can observe of it: whether it is *)
(* a regular file, whether open() succeeds, whether it decodes as UTF-8,   *)
(* what the two pygments lookups answer, how many '\n' its content holds   *)
(* and what tiktoken makes of it.  A tree is a bag of such records; os.walk*)
(* hands them out in an unspecified order, so a walk visits any file that  *)
(* is still to do.                                                         *)
(***************************************************************************)
EXTENDS Integers, Sequences, FiniteSets, Bags

\* ------------------------------------------------------------------ bounds
\* Largest number of directory entries os.walk lists under the root.
MaxFiles == 3
\* Largest number of '\n' in one file's content.
MaxNewlines == 1
\* Largest number of tokens tiktoken returns for one file's content.
MaxTokens == 1

\* ------------------------------------------------------------- input space
None == "None"

\* Lexer names get_lexer_for_filename can answer.
Languages == {"Python", "Go"}

\* Lexer names only guess_lexer_for_filename answers (the file name alone
\* does not settle it).
GuessLanguages == {"C"}

\* Mutant of MetricOrder: the token walk is made first.
MetricOrderTokensFirst == <<"tokens", "lines">>

\* The two metrics analyze_repository asks for, in the order it asks.
MetricOrder == <<"lines", "tokens">>

Metrics == {"lines", "tokens"}

File(kind, name_lexer, guess_lexer, newlines, tokens, special) ==
    [kind |-> kind, name_lexer |-> name_lexer, guess_lexer |-> guess_lexer,
     newlines |-> newlines, tokens |-> tokens, special |-> special]

\* Entries whose content is never obtained: os.path.isfile is false, open()
\* raises OSError, or the bytes are not UTF-8.
OpaqueFiles ==
    { File(k, None, None, 0, 0, FALSE) :
        k \in {"nonregular", "unreadable", "undecodable"} }

\* Text files no lexer is found for; their content is never scored.
UnclassifiableFiles == { File("text", None, None, MaxNewlines, MaxTokens, FALSE) }

\* What the two scorers can make of one content, as <<newlines, tokens>>:
\* tiktoken finds no token in the empty content only, which holds no '\n'.
Contents ==
    { c \in (0..MaxNewlines) \X (0..MaxTokens) : c[2] = 0 => c[1] = 0 }

\* Text files classified by their name.
NamedFiles ==
    { File("text", l, None, c[1], c[2], FALSE) : l \in Languages, c \in Contents }

\* Text files classified by the content guess only.
GuessedFiles ==
    { File("text", None, l, 1, 1, FALSE) : l \in GuessLanguages }

\* Text files holding a special token such as <|endoftext|>, which
\* encoding.encode refuses with ValueError.
SpecialTokenFiles == { File("text", "Python", None, 1, 0, TRUE) }

FileKinds ==
    OpaqueFiles \cup UnclassifiableFiles \cup NamedFiles \cup GuessedFiles
        \cup SpecialTokenFiles

RECURSIVE TreesOfSize(_)
TreesOfSize(n) ==
    IF n = 0 THEN { EmptyBag }
    ELSE { b (+) SetToBag({f}) : b \in TreesOfSize(n - 1), f \in FileKinds }

\* Every extracted tree of at most MaxFiles entries.
Trees == UNION { TreesOfSize(n) : n \in 0..MaxFiles }

\* ------------------------------------------------- dicts (insertion-ordered)
\* A Python dict is a sequence of <<key, value>> items in insertion order.
DictKeys(d) == { d[i][1] : i \in DOMAIN d }

DictGet(d, k, default) ==
    IF k \in DictKeys(d)
    THEN d[CHOOSE i \in DOMAIN d : d[i][1] = k][2]
    ELSE default

DictSet(d, k, v) ==
    IF k \in DictKeys(d)
    THEN [i \in DOMAIN d |-> IF d[i][1] = k THEN <<k, v>> ELSE d[i]]
    ELSE Append(d, <<k, v>>)

\* ------------------------------------------------------------------- state
\* No exception has left main().
NoError == [in |-> "none", exc |-> "none"]

VARIABLES
    pc,                  \* position of main()
    error,               \* the exception leaving main() and the call raising it
    temp_dir,            \* TRUE while the mkdtemp directory exists
    tree,                \* the extracted file tree
    pass,                \* number of walks analyze_repository has completed
    metric,              \* metric of the walk in progress
    todo,                \* files os.walk has still to yield in this walk
    results_by_language, \* the walk's accumulator
    progress,            \* <<n, total>> of the walk's progress bar
    loc_by_language,
    tokens_by_language,
    analysis_results,
    sorted_results,      \* the rows print_analysis_results renders
    printed,             \* TRUE once the table is printed
    scored,              \* history: files each metric's scorer was applied to
    attempts             \* history: how often each transport step was started

vars == << pc, error, temp_dir, tree, pass, metric, todo, results_by_language,
           progress, loc_by_language, tokens_by_language, analysis_results,
           sorted_results, printed, scored, attempts >>

walkVars == << metric, todo, results_by_language, progress >>
reportVars == << loc_by_language, tokens_by_language, analysis_results,
                 sorted_results, printed >>

Init ==
    /\ pc = "main"
    /\ error = NoError
    /\ temp_dir = FALSE
    /\ tree = EmptyBag
    /\ pass = 0
    /\ metric = "none"
    /\ todo = EmptyBag
    /\ results_by_language = << >>
    /\ progress = <<0, 0>>
    /\ loc_by_language = << >>
    /\ tokens_by_language = << >>
    /\ analysis_results = << >>
    /\ sorted_results = << >>
    /\ printed = FALSE
    /\ scored = [m \in Metrics |-> EmptyBag]
    /\ attempts = [s \in {"resolve", "download", "extract"} |-> 0]


\* ----------------------------------------------------- classifier and scorers
\* Mutant of get_language_from_content: a fallback label instead of None.
get_language_or_text(f) ==
    IF f.name_lexer # None THEN f.name_lexer
    ELSE IF f.guess_lexer # None THEN f.guess_lexer
    ELSE "Text only"

\* get_language_from_content: the lexer found for the file name, else the
\* lexer guessed from name and content, else None.
get_language_from_content(f) ==
    IF f.name_lexer # None THEN f.name_lexer
    ELSE IF f.guess_lexer # None THEN f.guess_lexer
    ELSE None

\* content.count('\n')
process_file_lines(f) == f.newlines

\* len(encoding.encode(text)); encode raises ValueError on a special token.
count_tokens(f) == f.tokens

count_tokens_raises(f) == f.special

process_file_func(m, f) ==
    IF m = "lines" THEN process_file_lines(f) ELSE count_tokens(f)

process_file_func_raises(m, f) == m = "tokens" /\ count_tokens_raises(f)

\* Mutant of Accumulate: "=" where the code has "+=".
AccumulateOverwrite(d, language, count) == DictSet(d, language, count)

\* Mutant of Accumulate: the bucket is created holding the count, which is
\* then added once more.
AccumulateCreatedAtCount(d, language, count) ==
    LET created == IF language \notin DictKeys(d)
                   THEN DictSet(d, language, count)
                   ELSE d
    IN  DictSet(created, language, DictGet(created, language, 0) + count)

\* Lines 53-56: create the bucket at 0 on first sight, then add the count.
Accumulate(d, language, count) ==
    LET created == IF language \notin DictKeys(d)
                   THEN DictSet(d, language, 0)
                   ELSE d
    IN  DictSet(created, language, DictGet(created, language, 0) + count)

\* ------------------------------------------------------------ report assembly
RECURSIVE GCD(_, _)
GCD(a, b) == IF b = 0 THEN a ELSE GCD(b, a % b)

\* A quotient is <<numerator, denominator>> in lowest terms; the integer 0 of
\* the else-branch is <<0, 1>>, and <<0, 0>> stands for ZeroDivisionError.
Zero == <<0, 1>>

ZeroDivisionError == <<0, 0>>

TrueDiv(a, b) ==
    IF b = 0 THEN ZeroDivisionError
    ELSE LET g == GCD(a, b) IN <<a \div g, b \div g>>

\* Mutant of TokensPerLine: the division without its guard.
TokensPerLineUnguarded(tokens, loc) == TrueDiv(tokens, loc)

\* tokens / loc if loc > 0 else 0
TokensPerLine(tokens, loc) == IF loc > 0 THEN TrueDiv(tokens, loc) ELSE Zero

Row(language, loc, tokens) ==
    << language, [lines_of_code |-> loc, tokens |-> tokens,
                  tokens_per_line |-> TokensPerLine(tokens, loc)] >>

\* analyze_repository, lines 190-202: one item per key of loc_by_language, in
\* its order.
AnalysisResults(loc_d, tokens_d) ==
    [i \in DOMAIN loc_d |->
        Row(loc_d[i][1], loc_d[i][2], DictGet(tokens_d, loc_d[i][1], 0))]

\* Mutant of InsertRow: x goes in front of the items with an equal key, as
\* reversing an ascending sort would leave it.
InsertRowBeforeTies(t, x) ==
    LET p == Cardinality({ i \in DOMAIN t :
                             t[i][2].lines_of_code > x[2].lines_of_code })
    IN  SubSeq(t, 1, p) \o <<x>> \o SubSeq(t, p + 1, Len(t))

\* Where sorted(..., reverse=True) puts x into the already sorted t: behind
\* every item whose key is not smaller, so equal keys keep their order.
InsertRow(t, x) ==
    LET p == Cardinality({ i \in DOMAIN t :
                             t[i][2].lines_of_code >= x[2].lines_of_code })
    IN  SubSeq(t, 1, p) \o <<x>> \o SubSeq(t, p + 1, Len(t))

\* sorted(analysis_results.items(), key=lines_of_code, reverse=True)
RECURSIVE SortedByLoc(_)
SortedByLoc(s) ==
    IF s = << >> THEN << >>
    ELSE InsertRow(SortedByLoc(SubSeq(s, 1, Len(s) - 1)), s[Len(s)])

RECURSIVE SumLoc(_)
SumLoc(rows) ==
    IF rows = << >> THEN 0 ELSE rows[1][2].lines_of_code + SumLoc(Tail(rows))

RECURSIVE SumTokens(_)
SumTokens(rows) ==
    IF rows = << >> THEN 0 ELSE rows[1][2].tokens + SumTokens(Tail(rows))

\* Mutant of TotalRow: total_tokens sums the lines_of_code column.
TotalRowTokensFromLoc(rows) == Row("Total", SumLoc(rows), SumLoc(rows))

\* Lines 229-232: the Total row of the sorted rows.
TotalRow(rows) == Row("Total", SumLoc(rows), SumTokens(rows))

\* Lines 226-232: the sorted rows with the Total row inserted at index 0.
RenderedRows(results) ==
    LET rows == SortedByLoc(results) IN <<TotalRow(rows)>> \o rows

RowsRaise(rows) ==
    \E i \in DOMAIN rows : rows[i][2].tokens_per_line = ZeroDivisionError

\* ------------------------------------------------------------------- actions
\* Mutant of Raise: the exception is noted and main() goes on to the analysis.
RaiseAndGoOn(call, e) ==
    /\ error' = [in |-> call, exc |-> e]
    /\ pc' = "analyze"

\* An exception leaves main(): through the finally of TemporaryDirectoryWithZip
\* when the temporary directory exists, straight out otherwise.
Raise(call, e) ==
    /\ error' = [in |-> call, exc |-> e]
    /\ pc' = IF temp_dir' THEN "cleanup" ELSE "exit"

\* main, lines 253-255: no repository URL on the command line.
Usage ==
    /\ pc = "main"
    /\ error' = [in |-> "main", exc |-> "SystemExit"]
    /\ pc' = "exit"
    /\ UNCHANGED << temp_dir, tree, pass, walkVars, reportVars, scored, attempts >>

\* main, lines 257-258: get_zip_url returns the archive URL or raises.
GetZipUrl ==
    /\ pc = "main"
    /\ attempts' = [attempts EXCEPT !["resolve"] = @ + 1]
    /\ temp_dir' = temp_dir
    /\ \E outcome \in {"ok", "ValueError", "HTTPError"} :
          IF outcome = "ok"
          THEN pc' = "download" /\ error' = error
          ELSE Raise("get_zip_url", outcome)
    /\ UNCHANGED << tree, pass, walkVars, reportVars, scored >>

\* TemporaryDirectoryWithZip, lines 206-210: mkdtemp, then download_repo_zip.
Download ==
    /\ pc = "download"
    /\ attempts' = [attempts EXCEPT !["download"] = @ + 1]
    /\ temp_dir' = TRUE
    /\ \E outcome \in {"ok", "HTTPError", "ConnectionError"} :
          IF outcome = "ok"
          THEN pc' = "extract" /\ error' = error
          ELSE Raise("download_repo_zip", outcome)
    /\ UNCHANGED << tree, pass, walkVars, reportVars, scored >>

\* TemporaryDirectoryWithZip, lines 212-214: extractall, then yield temp_dir;
\* main goes on to call analyze_repository.
Extract ==
    /\ pc = "extract"
    /\ attempts' = [attempts EXCEPT !["extract"] = @ + 1]
    /\ temp_dir' = temp_dir
    /\ \E outcome \in {"ok", "BadZipFile"} :
          IF outcome = "ok"
          THEN /\ \E t \in Trees : tree' = t
               /\ pc' = "analyze"
               /\ error' = error
          ELSE tree' = tree /\ Raise("extractall", outcome)
    /\ UNCHANGED << pass, walkVars, reportVars, scored >>

\* analyze_repository, lines 187-188, entering process_files_in_directory,
\* lines 29-35, for the next metric.
BeginWalk ==
    /\ pc = "analyze"
    /\ pass < Len(MetricOrder)
    /\ metric' = MetricOrder[pass + 1]
    /\ results_by_language' = << >>
    /\ todo' = tree
    /\ progress' = <<0, BagCardinality(tree)>>
    /\ pc' = "walk"
    /\ UNCHANGED << error, temp_dir, tree, pass, reportVars, scored, attempts >>

\* process_files_in_directory, lines 37-59: one iteration of the loop, on
\* whichever file os.walk yields next.
VisitFile(f) ==
    /\ pc = "walk"
    /\ BagIn(f, todo)
    /\ todo' = todo (-) SetToBag({f})
    /\ temp_dir' = temp_dir
    /\ IF f.kind = "nonregular" \/ f.kind = "undecodable"
       THEN \* continue
            /\ pc' = pc /\ error' = error
            /\ UNCHANGED << results_by_language, progress, scored >>
       ELSE IF f.kind = "unreadable"
       THEN \* open() raises an OSError no except clause names
            /\ Raise("open", "PermissionError")
            /\ UNCHANGED << results_by_language, progress, scored >>
       ELSE LET language == get_language_from_content(f) IN
            IF language = None
            THEN /\ pc' = pc /\ error' = error
                 /\ progress' = <<progress[1] + 1, progress[2]>>
                 /\ UNCHANGED << results_by_language, scored >>
            ELSE IF process_file_func_raises(metric, f)
            THEN /\ Raise("count_tokens", "ValueError")
                 /\ UNCHANGED << results_by_language, progress, scored >>
            ELSE /\ results_by_language' =
                        Accumulate(results_by_language, language,
                                   process_file_func(metric, f))
                 /\ scored' = [scored EXCEPT ![metric] = @ (+) SetToBag({f})]
                 /\ progress' = <<progress[1] + 1, progress[2]>>
                 /\ pc' = pc /\ error' = error
    /\ UNCHANGED << tree, pass, metric, reportVars, attempts >>

\* process_files_in_directory, line 61, back in analyze_repository.
ReturnWalk ==
    /\ pc = "walk"
    /\ todo = EmptyBag
    /\ IF metric = "lines"
       THEN loc_by_language' = results_by_language
            /\ tokens_by_language' = tokens_by_language
       ELSE tokens_by_language' = results_by_language
            /\ loc_by_language' = loc_by_language
    /\ pass' = pass + 1
    /\ pc' = "analyze"
    /\ UNCHANGED << error, temp_dir, tree, walkVars, analysis_results,
                    sorted_results, printed, scored, attempts >>

\* analyze_repository, lines 190-202.
Assemble ==
    /\ pc = "analyze"
    /\ pass = Len(MetricOrder)
    /\ temp_dir' = temp_dir
    /\ LET results == AnalysisResults(loc_by_language, tokens_by_language) IN
       IF RowsRaise(results)
       THEN analysis_results' = analysis_results
            /\ Raise("analyze_repository", "ZeroDivisionError")
       ELSE analysis_results' = results /\ pc' = "print" /\ error' = error
    /\ UNCHANGED << tree, pass, walkVars, loc_by_language, tokens_by_language,
                    sorted_results, printed, scored, attempts >>

\* print_analysis_results, lines 226-243.
print_analysis_results ==
    /\ pc = "print"
    /\ temp_dir' = temp_dir
    /\ LET rows == RenderedRows(analysis_results) IN
       IF RowsRaise(rows)
       THEN /\ Raise("print_analysis_results", "ZeroDivisionError")
            /\ UNCHANGED << sorted_results, printed >>
       ELSE /\ sorted_results' = rows
            /\ printed' = TRUE
            /\ pc' = "cleanup"
            /\ error' = error
    /\ UNCHANGED << tree, pass, walkVars, loc_by_language, tokens_by_language,
                    analysis_results, scored, attempts >>

\* TemporaryDirectoryWithZip, lines 215-216: the finally clause.
Cleanup ==
    /\ pc = "cleanup"
    /\ temp_dir' = FALSE
    /\ pc' = "exit"
    /\ UNCHANGED << error, tree, pass, walkVars, reportVars, scored, attempts >>

Next ==
    \/ Usage
    \/ GetZipUrl
    \/ Download
    \/ Extract
    \/ BeginWalk
    \/ \E f \in FileKinds : VisitFile(f)
    \/ ReturnWalk
    \/ Assemble
    \/ print_analysis_results
    \/ Cleanup

Spec == Init /\ [][Next]_vars


\* ------------------------------------------------------ properties: helpers
\* The tree was extracted and handed to analyze_repository.
Extracted == attempts["extract"] > 0 /\ error.in # "extractall"

\* A file the classifier answers None for, read off the two lookups.
Unclassifiable(f) == f.kind = "text" /\ f.name_lexer = None /\ f.guess_lexer = None

\* A text file some lexer is found for.
Classified(f) == f.kind = "text" /\ ~Unclassifiable(f)

\* The label of a classified file, read off the two lookups.
LabelOf(f) == IF f.name_lexer # None THEN f.name_lexer ELSE f.guess_lexer

\* The labels of the classified files of tree t.
LabelsIn(t) == { LabelOf(f) : f \in { g \in BagToSet(t) : Classified(g) } }

\* The score of file f under metric m.
ScoreOf(m, f) == IF m = "lines" THEN f.newlines ELSE f.tokens

\* The sum of the scores under metric m of the files of t labelled l, taken
\* over the bag without regard to any visiting order.
RECURSIVE SumScores(_, _, _, _)
SumScores(S, t, m, l) ==
    IF S = {} THEN 0
    ELSE LET f == CHOOSE x \in S : TRUE
         IN  (IF Classified(f) /\ LabelOf(f) = l
              THEN CopiesIn(f, t) * ScoreOf(m, f) ELSE 0)
             + SumScores(S \ {f}, t, m, l)

ExpectedTotal(t, m, l) == SumScores(BagToSet(t), t, m, l)

\* The sum of a column over the buckets of the report, by index set.
RECURSIVE SumBuckets(_, _, _)
SumBuckets(report, I, column) ==
    IF I = {} THEN 0
    ELSE LET i == CHOOSE x \in I : TRUE
         IN  (IF column = "tokens" THEN report[i][2].tokens
              ELSE report[i][2].lines_of_code)
             + SumBuckets(report, I \ {i}, column)

\* Position of label l among the keys of dict d.
KeyIndex(d, l) == CHOOSE i \in DOMAIN d : d[i][1] = l

\* The file kinds of which a copy has been visited in the walk in progress.
Visited(f) == CopiesIn(f, todo) < CopiesIn(f, tree)

\* This step is the loop iteration that visits one copy of f.
Visits(f) == pc = "walk" /\ BagIn(f, todo) /\ todo' = todo (-) SetToBag({f})

\* ------------------------------------------------------------------ claims
\* C1: in every rendered report the Total row's lines_of_code is the sum of
\* lines_of_code over the report's language buckets, and its tokens the sum
\* of tokens over them.
TotalConsistency ==
    printed =>
        /\ sorted_results[1][1] = "Total"
        /\ sorted_results[1][2].lines_of_code =
              SumBuckets(analysis_results, DOMAIN analysis_results, "lines_of_code")
        /\ sorted_results[1][2].tokens =
              SumBuckets(analysis_results, DOMAIN analysis_results, "tokens")

\* A report of two buckets whose token total differs from its line total.
TotalConsistencyWitness ==
    /\ printed
    /\ Len(analysis_results) >= 2
    /\ sorted_results[1][2].lines_of_code > 0
    /\ sorted_results[1][2].tokens # sorted_results[1][2].lines_of_code

\* The tokens_per_line of a row is 0 when it has no lines and tokens over
\* lines otherwise.
RatioOK(row) ==
    /\ row[2].lines_of_code = 0 => row[2].tokens_per_line = Zero
    /\ row[2].lines_of_code > 0 =>
          /\ row[2].tokens_per_line[2] > 0
          /\ row[2].tokens_per_line[1] * row[2].lines_of_code
                = row[2].tokens * row[2].tokens_per_line[2]

\* C2: a bucket with lines_of_code 0 reports tokens_per_line 0 and no
\* ZeroDivisionError is ever raised, the Total row included; every other row
\* reports tokens / lines_of_code.
ZeroDivisionSafety ==
    /\ error.exc # "ZeroDivisionError"
    /\ \A i \in DOMAIN analysis_results : RatioOK(analysis_results[i])
    /\ \A i \in DOMAIN sorted_results : RatioOK(sorted_results[i])

\* A printed report whose Total has tokens but no lines, next to none.
ZeroDivisionSafetyWitness ==
    /\ printed
    /\ sorted_results[1][2].lines_of_code = 0
    /\ sorted_results[1][2].tokens > 0
    /\ Len(sorted_results) >= 3

\* C3: the rendered rows are the Total row, then the language buckets in
\* descending lines_of_code, equal lines_of_code in the order the buckets
\* were created.
TotalFirstStableDescending ==
    printed =>
        /\ Len(sorted_results) = Len(analysis_results) + 1
        /\ sorted_results[1][1] = "Total"
        /\ { sorted_results[i] : i \in 2..Len(sorted_results) }
              = { analysis_results[i] : i \in DOMAIN analysis_results }
        /\ \A i, j \in 2..Len(sorted_results) :
              i < j =>
                /\ sorted_results[i][2].lines_of_code
                      >= sorted_results[j][2].lines_of_code
                /\ sorted_results[i][2].lines_of_code
                      = sorted_results[j][2].lines_of_code
                   => KeyIndex(loc_by_language, sorted_results[i][1])
                        < KeyIndex(loc_by_language, sorted_results[j][1])

\* Three buckets, two of them tied below the third, the tied ones created
\* first.
TotalFirstStableDescendingWitness ==
    /\ printed
    /\ Len(sorted_results) = 4
    /\ sorted_results[2][2].lines_of_code > sorted_results[3][2].lines_of_code
    /\ sorted_results[3][2].lines_of_code = sorted_results[4][2].lines_of_code
    /\ KeyIndex(loc_by_language, sorted_results[2][1]) = 3

\* The dict d a walk under metric m returned holds exactly the labels of the
\* tree's classified files, each with the sum of its files' scores.
TotalsOf(d, m) ==
    /\ DictKeys(d) = LabelsIn(tree)
    /\ \A l \in DictKeys(d) : DictGet(d, l, 0) = ExpectedTotal(tree, m, l)

\* C4: whatever order a walk visits the files in, the dict it returns holds
\* for each language the same total, the sum of the scores of its files.
OrderInvariance ==
    /\ pass >= 1 => TotalsOf(loc_by_language, "lines")
    /\ pass >= 2 => TotalsOf(tokens_by_language, "tokens")
    /\ (pc = "walk" /\ todo = EmptyBag) => TotalsOf(results_by_language, metric)

\* Both walks are done over a tree holding two files of one language with
\* different scores in both metrics, and a file of another language.
OrderInvarianceWitness ==
    /\ pass = 2
    /\ Len(tokens_by_language) >= 2
    /\ \E f, g \in BagToSet(tree) :
          /\ Classified(f) /\ Classified(g) /\ LabelOf(f) = LabelOf(g)
          /\ f.newlines # g.newlines /\ f.tokens # g.tokens

\* A file the walk is to skip: not UTF-8, or text no lexer is found for.
Skipped(f) == f.kind = "undecodable" \/ Unclassifiable(f)

\* C5: the loop iteration that visits an undecodable or unclassifiable file
\* leaves the accumulator and every report as they were, raises and records
\* nothing, and leaves the walk going on with the files still to do.
SkipSemantics ==
    [][ \A f \in FileKinds :
          (Visits(f) /\ Skipped(f)) =>
              /\ results_by_language' = results_by_language
              /\ error' = error /\ error = NoError
              /\ pc' = "walk"
              /\ UNCHANGED << tree, pass, metric, reportVars >> ]_vars

\* Mid-walk, with a bucket filled and a file still to do, the tree's
\* undecodable and unclassifiable files have been visited.
SkipSemanticsWitness ==
    /\ pc = "walk"
    /\ todo # EmptyBag
    /\ results_by_language # << >>
    /\ \E f \in BagToSet(tree) : Skipped(f)
    /\ \A f \in BagToSet(tree) : Skipped(f) => ~BagIn(f, todo)

\* C6: no file's failure aborts a walk: once the walks have begun, main()
\* leaves the analysis only with both walks completed over every file and the
\* report printed.
WalkNeverAborts ==
    (metric # "none" /\ pc \in {"cleanup", "exit"}) =>
        /\ todo = EmptyBag
        /\ pass = Len(MetricOrder)
        /\ printed

\* A tree all of whose files are undecodable or unclassifiable.
NoClassifiableFiles(t) == \A f \in BagToSet(t) : Skipped(f)

TotalOfZeros ==
    << "Total", [lines_of_code |-> 0, tokens |-> 0, tokens_per_line |-> Zero] >>

\* C7: over a tree with no classifiable file nothing is raised, both walks
\* return an empty dict, analyze_repository returns a report of no buckets
\* and the rendered rows are the Total row of zeros alone.
EmptyReport ==
    (Extracted /\ NoClassifiableFiles(tree)) =>
        /\ error = NoError
        /\ results_by_language = << >>
        /\ loc_by_language = << >> /\ tokens_by_language = << >>
        /\ analysis_results = << >>
        /\ pc \in {"cleanup", "exit"} =>
              printed /\ sorted_results = << TotalOfZeros >>

\* The report of a tree holding undecodable and unclassifiable files only
\* has been printed.
EmptyReportWitness ==
    /\ printed
    /\ NoClassifiableFiles(tree)
    /\ \E f \in BagToSet(tree) : f.kind = "undecodable"
    /\ \E f \in BagToSet(tree) : Unclassifiable(f)

TransportCalls == {"get_zip_url", "download_repo_zip", "extractall"}

\* C8: a failure of resolving, downloading or extracting ends the run with
\* the exception: no step is started a second time, no walk is begun, no
\* report assembled or printed, and main() can only go on to exit; no such
\* failure is met once a walk has begun.
TransportFailureFatal ==
    /\ \A s \in DOMAIN attempts : attempts[s] <= 1
    /\ error.in \in TransportCalls =>
          /\ pc \in {"cleanup", "exit"}
          /\ metric = "none" /\ pass = 0
          /\ scored = [m \in Metrics |-> EmptyBag]
          /\ analysis_results = << >> /\ sorted_results = << >>
          /\ ~printed
    /\ metric # "none" =>
          /\ error.in \notin TransportCalls
          /\ attempts = [s \in DOMAIN attempts |-> 1]

\* The extraction has failed and main() has exited through the finally.
TransportFailureFatalWitness ==
    /\ error = [in |-> "extractall", exc |-> "BadZipFile"]
    /\ pc = "exit"
    /\ ~temp_dir

\* C9: during a walk the accumulator's keys are the labels of the files
\* scored so far; a key new in a loop iteration is the label of the file
\* that iteration visits and holds 0 plus that file's score; a key already
\* there stays, with a value no smaller.
LazyMonotoneBuckets ==
    [][ pc = "walk" =>
          /\ DictKeys(results_by_language)
                = { LabelOf(f) : f \in BagToSet(scored[metric]) }
          /\ \A l \in DictKeys(results_by_language) :
                /\ l \in DictKeys(results_by_language')
                /\ DictGet(results_by_language', l, 0)
                      >= DictGet(results_by_language, l, 0)
          /\ \A l \in DictKeys(results_by_language') \ DictKeys(results_by_language) :
                \E f \in FileKinds :
                    /\ Visits(f) /\ Classified(f) /\ LabelOf(f) = l
                    /\ DictGet(results_by_language', l, 0) = 0 + ScoreOf(metric, f) ]_vars

\* Mid-walk there are two buckets, one of them grown past a single file's
\* score.
LazyMonotoneBucketsWitness ==
    /\ pc = "walk"
    /\ Len(results_by_language) >= 2
    /\ \E i \in DOMAIN results_by_language :
          results_by_language[i][2] > MaxNewlines /\ results_by_language[i][2] > MaxTokens

\* The classified files of tree t, as a bag.
RECURSIVE ClassifiedBag(_, _)
ClassifiedBag(S, t) ==
    IF S = {} THEN EmptyBag
    ELSE LET f == CHOOSE x \in S : TRUE
         IN  (IF Classified(f) THEN [g \in {f} |-> CopiesIn(f, t)] ELSE EmptyBag)
             (+) ClassifiedBag(S \ {f}, t)

\* C10 as stated: every file is scored for both metrics before the next file
\* is visited, so at no time are two files line-scored and not token-scored.
FileFullyProcessedBeforeNext ==
    BagCardinality(scored["lines"] (-) scored["tokens"]) <= 1

\* C10 as amended: the walk for lines is complete, every classified file
\* line-scored, before any file is token-scored; a token-scored file has
\* been line-scored.
LinesWalkBeforeTokensWalk ==
    /\ metric = "lines" => scored["tokens"] = EmptyBag
    /\ scored["tokens"] # EmptyBag =>
          /\ pass >= 1
          /\ scored["lines"] = ClassifiedBag(BagToSet(tree), tree)
    /\ scored["tokens"] \sqsubseteq scored["lines"]

\* Both walks have returned, each having scored at least two files.
LinesWalkBeforeTokensWalkWitness ==
    /\ pass = 2
    /\ BagCardinality(scored["tokens"]) >= 2
    /\ scored["tokens"] = scored["lines"]

=============================================================================
